---- MODULE Spec2Model ----
(***************************************************************************)
(* Polymer growth on the square lattice (polpymer): the Polymer chain of   *)
(* core_funcs.py with its conflict test and add_monomer, grow_polymer and  *)
(* compute_node_weights, and the PERM population controller of Dish.       *)
(*                                                                         *)
(* Objects live in `heap` (a Polymer's identity is its index there) and    *)
(* Dish.polymers is a list of references into it, so that a copy and an    *)
(* alias are different things.  Random draws (random.choice) are           *)
(* nondeterministic choices over the whole list drawn from.                *)
(*                                                                         *)
(* numpy float64 values are modelled exactly as dyadic rationals           *)
(* [n, e] = n / 2^e in lowest terms: every value the program computes here *)
(* is a product of integers 0..4 and of factors 2 and 0.5, far below 2^53, *)
(* so float64 arithmetic on them is exact.                                 *)
(***************************************************************************)
EXTENDS Integers, Sequences, FiniteSets, TLC

VARIABLES
    heap,            \* the Polymer objects, by identity
    polymers,        \* Dish.polymers: references into heap
    pc,              \* position of the running call
    result,          \* outcome of the last call
    length,          \* the length argument of grow_polymer / L of PERM
    m,               \* grow_polymer's local array m
    i,               \* the loop index i of grow_polymer / the round of PERM
    idx,             \* position of PERM's `for polymer in self.polymers`
    N,               \* PERM's argument N
    cplus,           \* PERM's argument cplus, a fraction [num, den]
    w,               \* PERM's per-round list w
    N_polymers,      \* PERM's per-round counter
    W_tilde,         \* PERM's per-round mean [kind, num, den]
    copied_polymers, \* PERM's per-round list of clones (references)
    origin,          \* the origin the Polymer / the Dish was constructed with
    n_found,         \* find_N_polymer's counter n
    end_to_end,      \* the end_to_end a call returned or stored on the Dish
    gyration,        \* the gyration a call returned or stored on the Dish
    weights          \* the weight matrix a call stored on the Dish

vars == <<heap, polymers, pc, result, length, m, i, idx, N, cplus, w,
          N_polymers, W_tilde, copied_polymers, origin, n_found, end_to_end,
          gyration, weights>>

(*************************** bounds of the model ***************************)
\* add_monomer is called while chain_length is below this
MaxChain == 4
\* largest length argument of grow_polymer
MaxGrowLen == 8
\* largest N of PERM
MaxN == 2
\* PERM runs with N * L at most this
MaxWork == 8
\* PERM rounds that would hold more chains than this are cut off
MaxPolymers == 4
\* find_N_polymer is followed for at most this many trial polymers
MaxTrials == 2
\* data_funcs.Polymer is constructed at most this many times
MaxInstances == 2
\* data_funcs.Polymer.add_monomer is called while chain_length is below this
MaxDataChain == 3

\* origins a Polymer is constructed at, and the origin of the Dish
Origins == {<<0, 0>>, <<1, -2>>}
DishOrigins == {<<1, -2>>}

(******************************* float64 ***********************************)
RECURSIVE Pow2(_)
Pow2(k) == IF k = 0 THEN 1 ELSE 2 * Pow2(k - 1)

RECURSIVE Norm(_, _)
Norm(n, e) == IF e > 0 /\ n % 2 = 0 THEN Norm(n \div 2, e - 1)
              ELSE [n |-> n, e |-> e]

FInt(k) == [n |-> k, e |-> 0]

FMul(a, b) == Norm(a.n * b.n, a.e + b.e)

FAdd(a, b) ==
    LET e == IF a.e > b.e THEN a.e ELSE b.e
    IN  Norm(a.n * Pow2(e - a.e) + b.n * Pow2(e - b.e), e)

\* a < b
FLess(a, b) ==
    LET e == IF a.e > b.e THEN a.e ELSE b.e
    IN  a.n * Pow2(e - a.e) < b.n * Pow2(e - b.e)

(******************************* Monomer ***********************************)
ANGLE_TO_ADD == << <<1, 0>>, <<0, 1>>, <<-1, 0>>, <<0, -1>> >>

\* Monomer.calculate_end: the end of a link of angle ang that starts at loc
calculate_end(ang, loc) ==
    LET add == ANGLE_TO_ADD[ang + 1]
    IN  <<loc[1] + add[1], loc[2] + add[2]>>

\* Monomer(ang) with its location set and calculate_end() called
Monomer(ang, loc) ==
    [angle |-> ang, location |-> loc, end_location |-> calculate_end(ang, loc)]

(******************************* Polymer ***********************************)
InSeq(x, s) == \E k \in 1..Len(s) : s[k] = x

\* Polymer.__init__ with the angle the starting monomer gets
Polymer(org, ang) ==
    LET starting_monomer == Monomer(ang, org)
    IN  [ origin        |-> org,
          chain_start   |-> org,
          chain_end     |-> starting_monomer.end_location,
          monomers      |-> <<starting_monomer>>,
          chain_length  |-> 1,
          claimed_sites |-> <<org, starting_monomer.end_location>>,
          pruned        |-> FALSE,
          node_m_vals   |-> <<>>,
          node_weights  |-> <<>>,
          has_nodes     |-> FALSE,
          nodes_locsx   |-> <<>>,
          nodes_locsy   |-> <<>> ]

\* Polymer.conflict
conflict(p, prop_monomer) ==
    LET start == prop_monomer.location
        end == prop_monomer.end_location
        cross == InSeq(end, p.claimed_sites)
        attach_end == ~((start = p.chain_start) \/ (start = p.chain_end))
    IN  cross \/ attach_end

\* the commit branch of add_monomer, in the order of the statements
add_monomer_commit(p, proposed_monomer, start_loc) ==
    LET p1 == [p EXCEPT !.chain_length = @ + 1,
                        !.monomers = Append(@, proposed_monomer)]
        p2 == IF start_loc = p1.chain_start
              THEN [p1 EXCEPT !.chain_start = proposed_monomer.end_location]
              ELSE IF start_loc = p1.chain_end
              THEN [p1 EXCEPT !.chain_end = proposed_monomer.end_location]
              ELSE p1
    IN  [p2 EXCEPT !.claimed_sites = Append(@, p2.chain_end)]

\* a plausible slip: the length is counted before the conflict test
add_monomer_count_first(p, ang, loc) ==
    IF loc \notin {"start", "end"}
    THEN [polymer |-> p, raised |-> "ValueError"]
    ELSE LET start_loc == IF loc = "start" THEN p.chain_start ELSE p.chain_end
             proposed_monomer == Monomer(ang, start_loc)
             p1 == [p EXCEPT !.chain_length = @ + 1]
         IN  IF ~conflict(p1, proposed_monomer)
             THEN [polymer |-> add_monomer_commit(p, proposed_monomer, start_loc),
                   raised |-> "none"]
             ELSE [polymer |-> p1, raised |-> "Exception"]

\* Polymer.add_monomer: the polymer after the call and what the call raised
add_monomer(p, ang, loc) ==
    IF loc \notin {"start", "end"}
    THEN [polymer |-> p, raised |-> "ValueError"]
    ELSE LET start_loc == IF loc = "start" THEN p.chain_start ELSE p.chain_end
             proposed_monomer == Monomer(ang, start_loc)
         IN  IF ~conflict(p, proposed_monomer)
             THEN [polymer |-> add_monomer_commit(p, proposed_monomer, start_loc),
                   raised |-> "none"]
             ELSE [polymer |-> p, raised |-> "Exception"]

(********************* a Polymer under add_monomer calls *******************)
NoPerm == /\ idx = 0 /\ N = 0 /\ cplus = [num |-> 1, den |-> 1]
          /\ w = <<>> /\ N_polymers = 0
          /\ W_tilde = [kind |-> "unset", num |-> FInt(0), den |-> 0]
          /\ copied_polymers = <<>>

PermUnchanged == UNCHANGED <<idx, N, cplus, w, N_polymers, W_tilde,
                             copied_polymers, origin>>

\* nothing has been analysed yet: the Dish's matrices are unset
NoPlain == /\ n_found = 0 /\ end_to_end = <<>> /\ gyration = <<>> /\ weights = <<>>

PlainUnchanged == UNCHANGED <<n_found, end_to_end, gyration, weights>>

\* Polymer(dims, origin, init_with_monomer)
Init ==
    /\ origin \in Origins
    /\ \E init_with_monomer \in BOOLEAN, ang \in 0..3 :
          /\ (~init_with_monomer) => ang = 0
          /\ heap = <<Polymer(origin, ang)>>
    /\ polymers = <<>>
    /\ pc = "api"
    /\ result = "none"
    /\ length = 0 /\ m = <<>> /\ i = 0
    /\ NoPerm
    /\ NoPlain

\* polymer.add_monomer(ang, loc)
AddMonomer ==
    /\ pc = "api"
    /\ heap[1].chain_length < MaxChain
    /\ \E ang \in 0..3, loc \in {"start", "end", "middle"} :
          LET r == add_monomer(heap[1], ang, loc)
          IN  /\ heap' = [heap EXCEPT ![1] = r.polymer]
              /\ result' = r.raised
    /\ UNCHANGED <<polymers, pc, length, m, i>>
    /\ PermUnchanged
    /\ PlainUnchanged

(****************************** grow_polymer *******************************)
\* the directions left in grow_options after the conflicting ones are removed
grow_options(p) ==
    SelectSeq(<<0, 1, 2, 3>>,
              LAMBDA j : ~conflict(p, Monomer(j, p.chain_end)))

\* np.prod(ms[0:k]): the product of the first k entries (of all, if fewer)
RECURSIVE prod_slice(_, _)
prod_slice(ms, k) ==
    IF k = 0 \/ Len(ms) = 0 THEN FInt(1)
    ELSE IF k > Len(ms) THEN prod_slice(ms, Len(ms))
    ELSE FMul(prod_slice(ms, k - 1), ms[k])

\* a plausible slip: the slice m[0:i] in place of m[0:i+1]
compute_node_weights_short_slice(p) ==
    [p EXCEPT
        !.nodes_locsx = [k \in 1..(p.chain_length + 1) |->
                            IF k <= p.chain_length THEN p.monomers[k].location[1]
                            ELSE p.chain_end[1]],
        !.nodes_locsy = [k \in 1..(p.chain_length + 1) |->
                            IF k <= p.chain_length THEN p.monomers[k].location[2]
                            ELSE p.chain_end[2]],
        !.has_nodes = TRUE,
        !.node_weights = [k \in 1..p.chain_length |->
                            prod_slice(p.node_m_vals, k - 1)]]

\* a plausible slip: the nodes are the links' ends, the origin is left out
compute_node_weights_link_ends(p) ==
    [p EXCEPT
        !.nodes_locsx = [k \in 1..(p.chain_length + 1) |->
                            IF k <= p.chain_length
                            THEN p.monomers[k].end_location[1]
                            ELSE p.chain_end[1]],
        !.nodes_locsy = [k \in 1..(p.chain_length + 1) |->
                            IF k <= p.chain_length
                            THEN p.monomers[k].end_location[2]
                            ELSE p.chain_end[2]],
        !.has_nodes = TRUE,
        !.node_weights = [k \in 1..p.chain_length |->
                            prod_slice(p.node_m_vals, k)]]

\* Polymer.compute_node_weights
compute_node_weights(p) ==
    [p EXCEPT
        !.nodes_locsx = [k \in 1..(p.chain_length + 1) |->
                            IF k <= p.chain_length THEN p.monomers[k].location[1]
                            ELSE p.chain_end[1]],
        !.nodes_locsy = [k \in 1..(p.chain_length + 1) |->
                            IF k <= p.chain_length THEN p.monomers[k].location[2]
                            ELSE p.chain_end[2]],
        !.has_nodes = TRUE,
        !.node_weights = [k \in 1..p.chain_length |->
                            prod_slice(p.node_m_vals, k)]]

\* trial_polymer = Polymer(dims, origin); trial_polymer.grow_polymer(length)
InitGrow ==
    /\ origin \in Origins
    /\ \E ang \in 0..3 : heap = <<Polymer(origin, ang)>>
    /\ polymers = <<>>
    /\ pc = "grow"
    /\ result = "none"
    /\ length \in 1..MaxGrowLen
    /\ m = <<FInt(4)>>
    /\ i = 0
    /\ NoPerm
    /\ NoPlain

\* one pass of `for i in range(length-1)`
GrowStep ==
    /\ pc = "grow"
    /\ i < length - 1
    /\ LET p == heap[1]
           options == grow_options(p)
       IN  IF Len(options) > 0
           THEN /\ m' = Append(m, FInt(Len(options)))
                /\ \E k \in 1..Len(options) :
                      heap' = [heap EXCEPT
                                 ![1] = add_monomer(p, options[k], "end").polymer]
                /\ i' = i + 1
                /\ pc' = "grow"
           ELSE /\ m' = Append(m, FInt(0))
                /\ pc' = "grow_break"
                /\ UNCHANGED <<heap, i>>
    /\ UNCHANGED <<polymers, result, length>>
    /\ PermUnchanged
    /\ PlainUnchanged

\* the loop is left (exhausted, or by break): self.node_m_vals = m
GrowFinish ==
    /\ \/ pc = "grow" /\ i >= length - 1
       \/ pc = "grow_break"
    /\ heap' = [heap EXCEPT ![1].node_m_vals = m]
    /\ pc' = "grown"
    /\ UNCHANGED <<polymers, result, length, m, i>>
    /\ PermUnchanged
    /\ PlainUnchanged

\* polymer.compute_node_weights()
ComputeNodeWeights ==
    /\ pc = "grown"
    /\ heap' = [heap EXCEPT ![1] = compute_node_weights(heap[1])]
    /\ pc' = "weighted"
    /\ UNCHANGED <<polymers, result, length, m, i>>
    /\ PermUnchanged
    /\ PlainUnchanged

(**************************** Polymer.observables **************************)
\* np.sum(xs[0:k]): the sum of the first k entries (of all, if fewer)
RECURSIVE np_sum(_, _)
np_sum(xs, k) ==
    IF k = 0 \/ Len(xs) = 0 THEN 0
    ELSE IF k > Len(xs) THEN np_sum(xs, Len(xs))
    ELSE np_sum(xs, k - 1) + xs[k]

\* the squares (c * xs[j] - s)^2 summed over the first k entries
RECURSIVE sum_sq_dev(_, _, _, _)
sum_sq_dev(xs, k, c, s) ==
    IF k = 0 THEN 0
    ELSE sum_sq_dev(xs, k - 1, c, s) + (c * xs[k] - s) * (c * xs[k] - s)

\* end_to_end_i of the loop pass i = k - 1
end_to_end_i(x_, y_, k) ==
    (x_[1] - x_[k + 1]) * (x_[1] - x_[k + 1])
        + (y_[1] - y_[k + 1]) * (y_[1] - y_[k + 1])

\* a plausible slip: the centre of mass divides by one node too many
gyration_i_mean_off_by_one(x_, y_, k) ==
    LET c == k
        cnt == IF k > Len(x_) THEN Len(x_) ELSE k
    IN  [num |-> sum_sq_dev(x_, cnt, c + 1, np_sum(x_, k))
                    + sum_sq_dev(y_, cnt, c + 1, np_sum(y_, k)),
         den |-> c * (c + 1) * (c + 1)]

\* gyration_i of the loop pass i = k - 1, over the slices x_[0:i+1] and
\* y_[0:i+1], as the exact fraction num/den the float64 result rounds:
\* 1/c * sum((x - 1/c * sum(x))^2) = sum((c*x - sum(x))^2) / c^3, c = i + 1.
\* The float64 value is 0 exactly when num is 0 (c = 1 gives 1/1 * x[0] = x[0]
\* without rounding, and for c > 1 some deviation is at least 1/(2c)).
gyration_i(x_, y_, k) ==
    LET c == k
        cnt == IF k > Len(x_) THEN Len(x_) ELSE k
    IN  [num |-> sum_sq_dev(x_, cnt, c, np_sum(x_, k))
                    + sum_sq_dev(y_, cnt, c, np_sum(y_, k)),
         den |-> c * c * c]

\* Polymer.observables: the polymer after the call (its cache may have been
\* filled), what the call raised, and the two arrays it returns.  x_[i+1] past
\* the end of a cached array raises IndexError.
observables(p) ==
    LET q == IF ~p.has_nodes THEN compute_node_weights(p) ELSE p
        L == q.chain_length
        x_ == q.nodes_locsx
        y_ == q.nodes_locsy
    IN  IF Len(x_) < L + 1
        THEN [polymer |-> q, raised |-> "IndexError",
              end_to_end |-> <<>>, gyration |-> <<>>]
        ELSE [polymer |-> q, raised |-> "none",
              end_to_end |-> [k \in 1..L |-> end_to_end_i(x_, y_, k)],
              gyration |-> [k \in 1..L |-> gyration_i(x_, y_, k)]]

\* how a call of observables ended: it returned, or the exception it raised
outcome(o) == IF o.raised = "none" THEN "returned" ELSE o.raised

\* end_to_end, gyration = polymer.observables() on the grown polymer
Observables ==
    /\ pc = "weighted"
    /\ \E o \in {observables(heap[1])} :
          /\ heap' = [heap EXCEPT ![1] = o.polymer]
          /\ end_to_end' = IF o.raised = "none" THEN o.end_to_end
                            ELSE end_to_end
          /\ gyration' = IF o.raised = "none" THEN o.gyration ELSE gyration
          /\ result' = outcome(o)
    /\ pc' = "observed"
    /\ UNCHANGED <<polymers, length, m, i, n_found, weights>>
    /\ PermUnchanged

\* end_to_end, gyration = polymer.observables() between add_monomer calls
ObservablesCall ==
    /\ pc = "api"
    /\ \E o \in {observables(heap[1])} :
          /\ heap' = [heap EXCEPT ![1] = o.polymer]
          /\ end_to_end' = IF o.raised = "none" THEN o.end_to_end
                            ELSE end_to_end
          /\ gyration' = IF o.raised = "none" THEN o.gyration ELSE gyration
          /\ result' = outcome(o)
    /\ UNCHANGED <<polymers, pc, length, m, i, n_found, weights>>
    /\ PermUnchanged

Next == AddMonomer \/ ObservablesCall

Spec == Init /\ [][Next]_vars

NextGrow == GrowStep \/ GrowFinish \/ ComputeNodeWeights \/ Observables

SpecGrow == InitGrow /\ [][NextGrow]_vars

\* np.zeros(k), for the three kinds of entries
zeros(k, zero) == [j \in 1..k |-> zero]

GZero == [num |-> 0, den |-> 1]

(******************************* Dish.PERM *********************************)
\* the values of cplus PERM is called with, as fractions num/den (den a
\* power of two, so that cplus itself is a float64)
CPlusValues == {[num |-> 1, den |-> 2], [num |-> 1, den |-> 1],
                [num |-> 20, den |-> 1]}

\* find_polymer(1): a Polymer with its seed link, grow_polymer(1) having set
\* node_m_vals to [4.]
find_polymer_1(org, ang) == [Polymer(org, ang) EXCEPT !.node_m_vals = <<FInt(4)>>]

\* a plausible slip: the growth loop does not test the pruned flag
perm_grow_pruned_too(p, k) ==
    LET options == grow_options(p)
        grows == Len(options) > 0
        p1 == IF Len(options) > 0
              THEN [add_monomer(p, options[k], "end").polymer
                       EXCEPT !.node_m_vals = Append(@, FInt(Len(options)))]
              ELSE [p EXCEPT !.pruned = TRUE,
                             !.node_m_vals = Append(@, FInt(0))]
    IN  [polymer |-> compute_node_weights(p1), grew |-> grows]

\* the body of PERM's growth loop for one polymer; k picks among grow_options
perm_grow(p, k) ==
    LET options == grow_options(p)
        grows == ~p.pruned /\ Len(options) > 0
        p1 == IF p.pruned
              THEN [p EXCEPT !.node_m_vals = Append(@, FInt(0))]
              ELSE IF Len(options) > 0
              THEN [add_monomer(p, options[k], "end").polymer
                       EXCEPT !.node_m_vals = Append(@, FInt(Len(options)))]
              ELSE [p EXCEPT !.pruned = TRUE,
                             !.node_m_vals = Append(@, FInt(0))]
    IN  [polymer |-> compute_node_weights(p1), grew |-> grows]

\* W_tilde = sum(w)/N_polymers: a quotient of a float64 by an int, inf or nan
\* when the int is 0 (numpy warns and goes on)
RECURSIVE sum(_)
sum(ws) == IF Len(ws) = 0 THEN FInt(0)
           ELSE FAdd(sum(SubSeq(ws, 1, Len(ws) - 1)), ws[Len(ws)])

mean(ws, n) ==
    [kind |-> IF n > 0 THEN "finite" ELSE IF sum(ws).n > 0 THEN "inf" ELSE "nan",
     num |-> sum(ws), den |-> n]

\* weight < W_minus, W_minus = (cplus/10)*W_tilde
less_than_W_minus(weight, Wt, cp) ==
    CASE Wt.kind = "finite" ->
            FLess(FMul(weight, FInt(10 * cp.den * Wt.den)),
                  FMul(FInt(cp.num), Wt.num))
      [] Wt.kind = "inf" -> TRUE
      [] OTHER -> FALSE

\* weight > W_plus, W_plus = cplus*W_tilde
greater_than_W_plus(weight, Wt, cp) ==
    CASE Wt.kind = "finite" ->
            FLess(FMul(FInt(cp.num), Wt.num),
                  FMul(weight, FInt(cp.den * Wt.den)))
      [] OTHER -> FALSE

Last(s) == s[Len(s)]

\* polymer.node_m_vals[-1] = factor * polymer.node_m_vals[-1]
scale_last_m(p, factor) ==
    [p EXCEPT !.node_m_vals[Len(p.node_m_vals)] = FMul(factor, @)]

\* a plausible slip: the polymer itself is kept, not a copy of it
no_copy(h, r) == [heap |-> h, ref |-> r]

\* copy.deepcopy(polymer): a new object holding the same values
deepcopy(h, r) == [heap |-> Append(h, h[r]), ref |-> Len(h) + 1]

\* a plausible slip: the clone is taken before the weight is halved
perm_correct_copy_first(h, r, Wt, cp, coin) ==
    LET p == h[r]
        weight == Last(p.node_weights)
    IN  IF p.pruned THEN [heap |-> h, copies |-> <<>>]
        ELSE IF less_than_W_minus(weight, Wt, cp)
        THEN LET p1 == IF coin = 0
                       THEN [scale_last_m(p, FInt(0)) EXCEPT !.pruned = TRUE]
                       ELSE scale_last_m(p, FInt(2))
             IN  [heap |-> [h EXCEPT ![r] = compute_node_weights(p1)],
                  copies |-> <<>>]
        ELSE IF greater_than_W_plus(weight, Wt, cp)
        THEN LET c == deepcopy(h, r)
                 p1 == compute_node_weights(scale_last_m(p, [n |-> 1, e |-> 1]))
             IN  [heap |-> [c.heap EXCEPT ![r] = p1], copies |-> <<c.ref>>]
        ELSE [heap |-> h, copies |-> <<>>]

\* a plausible slip: the correction is applied to the last weight and leaves
\* the branching factor alone
perm_correct_weight_only(h, r, Wt, cp, coin) ==
    LET p == h[r]
        weight == Last(p.node_weights)
        scaled(factor) ==
            [p EXCEPT !.node_weights[Len(p.node_weights)] = FMul(factor, @)]
    IN  IF p.pruned THEN [heap |-> h, copies |-> <<>>]
        ELSE IF less_than_W_minus(weight, Wt, cp)
        THEN LET p1 == IF coin = 0
                       THEN [scaled(FInt(0)) EXCEPT !.pruned = TRUE]
                       ELSE scaled(FInt(2))
             IN  [heap |-> [h EXCEPT ![r] = p1], copies |-> <<>>]
        ELSE IF greater_than_W_plus(weight, Wt, cp)
        THEN LET p1 == scaled([n |-> 1, e |-> 1])
                 c == deepcopy([h EXCEPT ![r] = p1], r)
             IN  [heap |-> c.heap, copies |-> <<c.ref>>]
        ELSE [heap |-> h, copies |-> <<>>]

\* the body of PERM's correction loop for the polymer r; coin is choice([0,1]).
\* Gives the heap after it and the clones it adds to copied_polymers.
perm_correct(h, r, Wt, cp, coin) ==
    LET p == h[r]
        weight == Last(p.node_weights)
    IN  IF p.pruned THEN [heap |-> h, copies |-> <<>>]
        ELSE IF less_than_W_minus(weight, Wt, cp)
        THEN LET p1 == IF coin = 0
                       THEN [scale_last_m(p, FInt(0)) EXCEPT !.pruned = TRUE]
                       ELSE scale_last_m(p, FInt(2))
             IN  [heap |-> [h EXCEPT ![r] = compute_node_weights(p1)],
                  copies |-> <<>>]
        ELSE IF greater_than_W_plus(weight, Wt, cp)
        THEN LET p1 == compute_node_weights(scale_last_m(p, [n |-> 1, e |-> 1]))
                 c == deepcopy([h EXCEPT ![r] = p1], r)
             IN  [heap |-> c.heap, copies |-> <<c.ref>>]
        ELSE [heap |-> h, copies |-> <<>>]

\* a plausible slip: the discarded chains are taken out of the ensemble
append_copies_drop_pruned(h, polys, copies) ==
    SelectSeq(polys, LAMBDA r : ~h[r].pruned) \o copies

\* for polymer in copied_polymers: self.polymers.append(polymer)
append_copies(h, polys, copies) == polys \o copies

\* dish = Dish(dims, origin); dish.PERM(N, cplus, L)
InitPerm ==
    /\ origin \in DishOrigins
    /\ heap = <<>>
    /\ polymers = <<>>
    /\ pc = "seed"
    /\ result = "none"
    /\ N \in 0..MaxN
    /\ length \in 1..MaxWork
    /\ N * length <= MaxWork
    /\ cplus \in CPlusValues
    /\ m = <<>> /\ i = 0 /\ idx = 0
    /\ w = <<>> /\ N_polymers = 0
    /\ W_tilde = [kind |-> "unset", num |-> FInt(0), den |-> 0]
    /\ copied_polymers = <<>>
    /\ NoPlain

\* one pass of `for i in range(N)`: a seed chain joins the ensemble
PermSeed ==
    /\ pc = "seed"
    /\ Len(polymers) < N
    /\ \E ang \in 0..3 :
          /\ heap' = Append(heap, find_polymer_1(origin, ang))
          /\ polymers' = Append(polymers, Len(heap) + 1)
    /\ UNCHANGED <<pc, result, length, m, i, idx, N, cplus, w, N_polymers,
                   W_tilde, copied_polymers, origin>>
    /\ PlainUnchanged

\* a plausible slip: `for i in range(L)`, one round more
PermRoundStart_range_L ==
    /\ \/ pc = "seed" /\ Len(polymers) = N
       \/ pc = "round_end"
    /\ IF i < length
       THEN /\ pc' = "grow"
            /\ idx' = 1
            /\ w' = <<>>
            /\ N_polymers' = 0
       ELSE /\ pc' = "assemble"
            /\ UNCHANGED <<idx, w, N_polymers>>
    /\ UNCHANGED <<heap, polymers, result, length, m, i, N, cplus, W_tilde,
                   copied_polymers, origin>>
    /\ PlainUnchanged

\* `for i in range(L-1)`: the next round starts, or the loop is over
PermRoundStart ==
    /\ \/ pc = "seed" /\ Len(polymers) = N
       \/ pc = "round_end"
    /\ IF i < length - 1
       THEN /\ pc' = "grow"
            /\ idx' = 1
            /\ w' = <<>>
            /\ N_polymers' = 0
       ELSE /\ pc' = "assemble"
            /\ UNCHANGED <<idx, w, N_polymers>>
    /\ UNCHANGED <<heap, polymers, result, length, m, i, N, cplus, W_tilde,
                   copied_polymers, origin>>
    /\ PlainUnchanged

\* one pass of the growth loop `for polymer in self.polymers`
PermGrow ==
    /\ pc = "grow"
    /\ idx <= Len(polymers)
    /\ LET r == polymers[idx]
           n == Len(grow_options(heap[r]))
       IN  \E k \in 1..(IF heap[r].pruned \/ n = 0 THEN 1 ELSE n) :
              \E g \in {perm_grow(heap[r], k)} :
                  /\ heap' = [heap EXCEPT ![r] = g.polymer]
                  /\ N_polymers' = IF g.grew THEN N_polymers + 1 ELSE N_polymers
                  /\ w' = Append(w, Last(g.polymer.node_weights))
    /\ idx' = idx + 1
    /\ UNCHANGED <<polymers, pc, result, length, m, i, N, cplus, W_tilde,
                   copied_polymers, origin>>
    /\ PlainUnchanged

\* W_tilde = sum(w)/N_polymers and the thresholds; 0/0 of two Python ints
\* (the empty ensemble) raises ZeroDivisionError
PermThresholds ==
    /\ pc = "grow"
    /\ idx > Len(polymers)
    /\ IF Len(w) = 0 /\ N_polymers = 0
       THEN /\ pc' = "error"
            /\ result' = "ZeroDivisionError"
            /\ UNCHANGED <<W_tilde, idx, copied_polymers>>
       ELSE /\ W_tilde' = mean(w, N_polymers)
            /\ pc' = "correct"
            /\ idx' = 1
            /\ copied_polymers' = <<>>
            /\ UNCHANGED result
    /\ UNCHANGED <<heap, polymers, length, m, i, N, cplus, w, N_polymers,
                   origin>>
    /\ PlainUnchanged

\* one pass of the correction loop `for polymer in self.polymers`
PermCorrect ==
    /\ pc = "correct"
    /\ idx <= Len(polymers)
    /\ \E coin \in {0, 1} :
          \E c \in {perm_correct(heap, polymers[idx], W_tilde, cplus, coin)} :
              /\ Len(polymers) + Len(copied_polymers) + Len(c.copies)
                    <= MaxPolymers
              /\ heap' = c.heap
              /\ copied_polymers' = copied_polymers \o c.copies
    /\ idx' = idx + 1
    /\ UNCHANGED <<polymers, pc, result, length, m, i, N, cplus, w,
                   N_polymers, W_tilde, origin>>
    /\ PlainUnchanged

\* the clones join the ensemble and the round is over
PermAppendCopies ==
    /\ pc = "correct"
    /\ idx > Len(polymers)
    /\ polymers' = append_copies(heap, polymers, copied_polymers)
    /\ i' = i + 1
    /\ pc' = "round_end"
    /\ UNCHANGED <<heap, result, length, m, idx, N, cplus, w, N_polymers,
                   W_tilde, copied_polymers, origin>>
    /\ PlainUnchanged

\* row[0:end] = src on a row of cols zeros: numpy broadcasts src to the
\* slice, whose length is end clipped to the row.  A src of that length is
\* copied, a src of length 1 fills the slice (nothing, if the slice is
\* empty), any other length raises ValueError.
assign_slice(src, end, cols, zero) ==
    LET t == IF end > cols THEN cols ELSE end
    IN  IF Len(src) = t
        THEN [raised |-> "none", row |-> src \o zeros(cols - t, zero)]
        ELSE IF Len(src) = 1
        THEN [raised |-> "none",
              row |-> [j \in 1..cols |-> IF j <= t THEN src[1] ELSE zero]]
        ELSE [raised |-> "ValueError", row |-> <<>>]

\* the outcome of a pass of PERM's closing loop, from the outcome o of
\* observables() and of the three slice assignments wr, er and gr
assembled(o, wr, er, gr) ==
    [polymer |-> o.polymer,
     raised |-> IF wr.raised # "none" THEN wr.raised
                ELSE IF o.raised # "none" THEN o.raised
                ELSE IF er.raised # "none" THEN er.raised
                ELSE gr.raised,
     weights |-> wr.row, end_to_end |-> er.row, gyration |-> gr.row]

\* the slice assignments of a pass, w_i being polymer.node_weights as read
\* before observables() was called and o the outcome of that call
assemble_slices(w_i, o, cols) ==
    assembled(o, assign_slice(w_i, Len(w_i), cols, FInt(0)),
                 assign_slice(o.end_to_end, Len(w_i), cols, 0),
                 assign_slice(o.gyration, Len(w_i), cols, GZero))

\* one pass of PERM's closing loop for the polymer p
assemble_row(p, cols) == assemble_slices(p.node_weights, observables(p), cols)

\* the heap after the first upto passes of the closing loop, rows[k] being
\* the outcome of the pass for polys[k]
assemble_heap(h, polys, rows, upto) ==
    [r \in 1..Len(h) |->
        IF \E k \in 1..upto : polys[k] = r
        THEN rows[CHOOSE k \in 1..upto : polys[k] = r].polymer
        ELSE h[r]]

\* the rounds are over: PERM fills its matrices row by row, stores them on the
\* Dish and returns; an exception in a row leaves the Dish's matrices unset
PermAssemble ==
    /\ pc = "assemble"
    /\ \E rows \in {[k \in 1..Len(polymers) |->
                        assemble_row(heap[polymers[k]], length)]} :
          LET amnt == Len(polymers)
              bad == {k \in 1..amnt : rows[k].raised # "none"}
          IN  IF bad = {}
              THEN /\ heap' = assemble_heap(heap, polymers, rows, amnt)
                   /\ weights' = [k \in 1..amnt |-> rows[k].weights]
                   /\ end_to_end' = [k \in 1..amnt |-> rows[k].end_to_end]
                   /\ gyration' = [k \in 1..amnt |-> rows[k].gyration]
                   /\ pc' = "done"
                   /\ UNCHANGED result
              ELSE LET first == CHOOSE k \in bad : \A j \in bad : k <= j
                   IN  /\ heap' = assemble_heap(heap, polymers, rows, first)
                       /\ result' = rows[first].raised
                       /\ pc' = "error"
                       /\ UNCHANGED <<weights, end_to_end, gyration>>
    /\ UNCHANGED <<polymers, length, m, i, idx, N, cplus, w, N_polymers,
                   W_tilde, copied_polymers, origin, n_found>>

NextPerm ==
    \/ PermSeed
    \/ PermRoundStart
    \/ PermGrow
    \/ PermThresholds
    \/ PermCorrect
    \/ PermAppendCopies
    \/ PermAssemble

SpecPerm == InitPerm /\ [][NextPerm]_vars

(***************** Dish.find_N_polymer and analyse_polymers ****************)
\* the heap after `polymer.compute_node_weights()` for every polymer of polys
RECURSIVE analyse_heap(_, _, _)
analyse_heap(h, polys, k) ==
    IF k = 0 THEN h
    ELSE LET g == analyse_heap(h, polys, k - 1)
         IN  [g EXCEPT ![polys[k]] = compute_node_weights(g[polys[k]])]

\* the rows analyse_polymers stores for the polymer p (after its
\* compute_node_weights call): each array padded by np.zeros(len - chain_length)
analyse_row(p, len) ==
    LET o == observables(p)
        pad == len - p.chain_length
    IN  [end_to_end |-> o.end_to_end \o zeros(pad, 0),
         gyration   |-> o.gyration \o zeros(pad, GZero),
         weights    |-> p.node_weights \o zeros(pad, FInt(0))]

\* dish = Dish(dims, origin); dish.find_N_polymer(N, length);
\* dish.analyse_polymers(length)
InitPlain ==
    /\ origin \in DishOrigins
    /\ heap = <<>>
    /\ polymers = <<>>
    /\ pc = "find"
    /\ result = "none"
    /\ N \in 0..MaxN
    /\ length \in 1..MaxGrowLen
    /\ N * length <= MaxWork
    /\ m = <<>> /\ i = 0 /\ idx = 0
    /\ cplus = [num |-> 1, den |-> 1]
    /\ w = <<>> /\ N_polymers = 0
    /\ W_tilde = [kind |-> "unset", num |-> FInt(0), den |-> 0]
    /\ copied_polymers = <<>>
    /\ NoPlain

\* `while n != N`: trial_polymer = Polymer(dims, origin), and grow_polymer
\* starts on it
PlainTrial ==
    /\ pc = "find"
    /\ n_found # N
    /\ Len(polymers) < MaxTrials
    /\ \E ang \in 0..3 : heap' = Append(heap, Polymer(origin, ang))
    /\ m' = <<FInt(4)>>
    /\ i' = 0
    /\ pc' = "trial_grow"
    /\ UNCHANGED <<polymers, result, length>>
    /\ PermUnchanged
    /\ PlainUnchanged

\* one pass of grow_polymer's `for i in range(length-1)` on the trial polymer
PlainGrowStep ==
    /\ pc = "trial_grow"
    /\ i < length - 1
    /\ LET r == Len(heap)
           options == grow_options(heap[r])
       IN  IF Len(options) > 0
           THEN /\ m' = Append(m, FInt(Len(options)))
                /\ \E k \in 1..Len(options) :
                      heap' = [heap EXCEPT
                                 ![r] = add_monomer(heap[r], options[k], "end").polymer]
                /\ i' = i + 1
                /\ pc' = "trial_grow"
           ELSE /\ m' = Append(m, FInt(0))
                /\ pc' = "trial_break"
                /\ UNCHANGED <<heap, i>>
    /\ UNCHANGED <<polymers, result, length>>
    /\ PermUnchanged
    /\ PlainUnchanged

\* grow_polymer returns (self.node_m_vals = m); the trial joins self.polymers
\* and counts if it has the full length
PlainTrialEnd ==
    /\ \/ pc = "trial_grow" /\ i >= length - 1
       \/ pc = "trial_break"
    /\ LET r == Len(heap)
       IN  /\ heap' = [heap EXCEPT ![r].node_m_vals = m]
           /\ polymers' = Append(polymers, r)
           /\ n_found' = IF heap[r].chain_length = length
                         THEN n_found + 1 ELSE n_found
    /\ pc' = "find"
    /\ UNCHANGED <<result, length, m, i, end_to_end, gyration, weights>>
    /\ PermUnchanged

\* find_N_polymer has returned: analyse_polymers(length)
PlainAnalyse ==
    /\ pc = "find"
    /\ n_found = N
    /\ \E h \in {analyse_heap(heap, polymers, Len(polymers))} :
       \E rows \in {[k \in 1..Len(polymers) |->
                        analyse_row(h[polymers[k]], length)]} :
          /\ heap' = h
          /\ end_to_end' = [k \in 1..Len(polymers) |-> rows[k].end_to_end]
          /\ gyration' = [k \in 1..Len(polymers) |-> rows[k].gyration]
          /\ weights' = [k \in 1..Len(polymers) |-> rows[k].weights]
    /\ pc' = "done"
    /\ UNCHANGED <<polymers, result, length, m, i, n_found>>
    /\ PermUnchanged

NextPlain == PlainTrial \/ PlainGrowStep \/ PlainTrialEnd \/ PlainAnalyse

SpecPlain == InitPlain /\ [][NextPlain]_vars

(********************* data_funcs.Polymer (earlier version) ****************)
\* The earlier Polymer of data_funcs.py keeps monomers and claimed_sites as
\* class attributes and never rebinds them on an instance: every instance
\* reads and mutates the one dict and the one list of the class.  heap[1] is
\* the class object here, heap[2], heap[3], ... are the instances.  Monomer,
\* calculate_end and ANGLE_TO_ADD of data_funcs.py are those of core_funcs.py.

\* the class Polymer as the module defines it
data_class == [monomers |-> <<>>, claimed_sites |-> <<>>]

\* self.monomers and self.claimed_sites of the instance r: no instance ever
\* assigns these attributes, so the lookup finds the ones of the class
data_monomers(h, r) == h[1].monomers
data_claimed_sites(h, r) == h[1].claimed_sites

\* d[key] = value on a dict; the key 'monomer_k' is modelled by k
dict_set(d, key, value) ==
    [x \in (DOMAIN d) \cup {key} |-> IF x = key THEN value ELSE d[x]]

\* Python values of different types are never equal
py_str(v) == [type |-> "str", val |-> v]
py_tuple(v) == [type |-> "tuple", val |-> v]
py_eq(a, b) == a.type = b.type /\ a.val = b.val

\* Polymer(dims, org, Monomer(ang)) of data_funcs.py: the heap after it
data_Polymer(h, org, ang) ==
    LET starting_monomer == Monomer(ang, org)
        self == [origin       |-> org,
                 chain_start  |-> org,
                 chain_end    |-> starting_monomer.end_location,
                 chain_length |-> 1]
    IN  Append([h EXCEPT ![1].monomers = dict_set(@, 0, starting_monomer)],
               self)

\* data_funcs.Polymer.conflict for the instance r
data_conflict(h, r, prop_monomer) ==
    LET start == prop_monomer.location
        end == prop_monomer.end_location
        cross == \E k \in 1..Len(h[1].claimed_sites) :
                    py_eq(py_tuple(end), h[1].claimed_sites[k])
        attach_end == ~((start = h[r].chain_start) \/ (start = h[r].chain_end))
        close == end = h[r].chain_start
    IN  cross \/ attach_end \/ close

\* data_funcs.Polymer.add_monomer on the instance r: the heap after the call
\* and what the call raised
data_add_monomer(h, r, ang, loc) ==
    IF loc \notin {"start", "end"}
    THEN [heap |-> h, raised |-> "ValueError"]
    ELSE LET start_loc == IF loc = "start" THEN h[r].chain_start
                          ELSE h[r].chain_end
             proposed_monomer == Monomer(ang, start_loc)
             len == h[r].chain_length + 1
             h1 == [h EXCEPT ![r].chain_length = len,
                             ![1].monomers = dict_set(@, len - 1, proposed_monomer)]
             h2 == IF start_loc = h1[r].chain_start
                   THEN [h1 EXCEPT ![r].chain_start = proposed_monomer.end_location]
                   ELSE IF start_loc = h1[r].chain_end
                   THEN [h1 EXCEPT ![r].chain_end = proposed_monomer.end_location]
                   ELSE h1
         IN  IF ~data_conflict(h, r, proposed_monomer)
             THEN [heap |-> [h2 EXCEPT ![1].claimed_sites = Append(@, py_str(loc))],
                   raised |-> "none"]
             ELSE [heap |-> h, raised |-> "Exception"]

\* the module data_funcs is imported: the class exists, no instance does
InitData ==
    /\ origin \in Origins
    /\ heap = <<data_class>>
    /\ polymers = <<>>
    /\ pc = "data"
    /\ result = "none"
    /\ length = 0 /\ m = <<>> /\ i = 0
    /\ NoPerm
    /\ NoPlain

\* polymer = Polymer(dims, origin, Monomer(ang))
DataNew ==
    /\ pc = "data"
    /\ Len(heap) - 1 < MaxInstances
    /\ \E ang \in 0..3 : heap' = data_Polymer(heap, origin, ang)
    /\ polymers' = Append(polymers, Len(heap) + 1)
    /\ result' = "none"
    /\ UNCHANGED <<pc, length, m, i>>
    /\ PermUnchanged
    /\ PlainUnchanged

\* polymer.add_monomer(ang, loc) on one of the instances
DataAddMonomer ==
    /\ pc = "data"
    /\ \E k \in 1..Len(polymers), ang \in 0..3,
          loc \in {"start", "end", "middle"} :
          /\ heap[polymers[k]].chain_length < MaxDataChain
          /\ \E a \in {data_add_monomer(heap, polymers[k], ang, loc)} :
                /\ heap' = a.heap
                /\ result' = a.raised
    /\ UNCHANGED <<polymers, pc, length, m, i>>
    /\ PermUnchanged
    /\ PlainUnchanged

NextData == DataNew \/ DataAddMonomer

SpecData == InitData /\ [][NextData]_vars

(******************************** Dish.FRW *********************************)
\* x_ and y_ as FRW builds them: the start of every link in the order of the
\* keys 'monomer_0', 'monomer_1', ..., then chain_end
frw_nodes(p) ==
    [p EXCEPT
        !.nodes_locsx = [k \in 1..(p.chain_length + 1) |->
                            IF k <= p.chain_length THEN p.monomers[k].location[1]
                            ELSE p.chain_end[1]],
        !.nodes_locsy = [k \in 1..(p.chain_length + 1) |->
                            IF k <= p.chain_length THEN p.monomers[k].location[2]
                            ELSE p.chain_end[2]],
        !.has_nodes = TRUE]

\* polymer.claimed_sites = []; polymer.add_monomer(ang)
frw_step(p, ang) == add_monomer([p EXCEPT !.claimed_sites = <<>>], ang, "end")

\* the rest of a pass of `for polymer in self.polymers` once the walk is
\* done: the nodes are stored, observables() is called and its arrays are
\* assigned to the rows end_to_end[j,:] and gyration[j,:] of cols columns
frw_rows(o, er, gr) ==
    [polymer |-> o.polymer,
     raised |-> IF o.raised # "none" THEN o.raised
                ELSE IF er.raised # "none" THEN er.raised
                ELSE gr.raised,
     end_to_end |-> er.row, gyration |-> gr.row]

frw_observed(o, cols) ==
    frw_rows(o, assign_slice(o.end_to_end, cols, cols, 0),
                assign_slice(o.gyration, cols, cols, GZero))

frw_observe(p, cols) == frw_observed(observables(frw_nodes(p)), cols)

\* dish = Dish(dims, origin); dish.FRW(N, length)
InitFrw ==
    /\ origin \in DishOrigins
    /\ heap = <<>>
    /\ polymers = <<>>
    /\ pc = "frw_seed"
    /\ result = "none"
    /\ N \in 0..MaxN
    /\ length \in 1..MaxWork
    /\ N * length <= MaxWork
    /\ cplus = [num |-> 1, den |-> 1]
    /\ m = <<>> /\ i = 0 /\ idx = 0
    /\ w = <<>> /\ N_polymers = 0
    /\ W_tilde = [kind |-> "unset", num |-> FInt(0), den |-> 0]
    /\ copied_polymers = <<>>
    /\ NoPlain

\* one pass of `for i in range(N)`: a one-link chain joins the ensemble
FrwSeed ==
    /\ pc = "frw_seed"
    /\ Len(polymers) < N
    /\ \E ang \in 0..3 :
          /\ heap' = Append(heap, find_polymer_1(origin, ang))
          /\ polymers' = Append(polymers, Len(heap) + 1)
    /\ UNCHANGED <<pc, result, length, m, i>>
    /\ PermUnchanged
    /\ PlainUnchanged

\* end_to_end = np.zeros((N,length)); gyration = np.zeros((N,length)); j = 0
FrwZeros ==
    /\ pc = "frw_seed"
    /\ Len(polymers) = N
    /\ end_to_end' = [k \in 1..N |-> zeros(length, 0)]
    /\ gyration' = [k \in 1..N |-> zeros(length, GZero)]
    /\ idx' = 1
    /\ i' = 0
    /\ pc' = "frw_walk"
    /\ UNCHANGED <<heap, polymers, result, length, m, N, cplus, w, N_polymers,
                   W_tilde, copied_polymers, origin, n_found, weights>>

\* one pass of `for i in range(length-1)` for the polymer at hand
FrwStep ==
    /\ pc = "frw_walk"
    /\ idx <= Len(polymers)
    /\ i < length - 1
    /\ \E ang \in 0..3 :
          \E a \in {frw_step(heap[polymers[idx]], ang)} :
              /\ heap' = [heap EXCEPT ![polymers[idx]] = a.polymer]
              /\ IF a.raised = "none"
                 THEN /\ i' = i + 1
                      /\ UNCHANGED <<pc, result>>
                 ELSE /\ pc' = "error"
                      /\ result' = a.raised
                      /\ UNCHANGED i
    /\ UNCHANGED <<polymers, length, m, idx, N, cplus, w, N_polymers, W_tilde,
                   copied_polymers, origin>>
    /\ PlainUnchanged

\* the walk of the polymer at hand is over: its nodes and observables fill
\* the row j of the two matrices, and the next polymer is taken
FrwObserve ==
    /\ pc = "frw_walk"
    /\ idx <= Len(polymers)
    /\ i >= length - 1
    /\ \E o \in {frw_observe(heap[polymers[idx]], length)} :
          /\ heap' = [heap EXCEPT ![polymers[idx]] = o.polymer]
          /\ IF o.raised = "none"
             THEN /\ end_to_end' = [end_to_end EXCEPT ![idx] = o.end_to_end]
                  /\ gyration' = [gyration EXCEPT ![idx] = o.gyration]
                  /\ idx' = idx + 1
                  /\ i' = 0
                  /\ UNCHANGED <<pc, result>>
             ELSE /\ pc' = "error"
                  /\ result' = o.raised
                  /\ UNCHANGED <<end_to_end, gyration, idx, i>>
    /\ UNCHANGED <<polymers, length, m, N, cplus, w, N_polymers, W_tilde,
                   copied_polymers, origin, n_found, weights>>

\* self.end_to_end = end_to_end; self.gyration = gyration
FrwStore ==
    /\ pc = "frw_walk"
    /\ idx > Len(polymers)
    /\ pc' = "done"
    /\ UNCHANGED <<heap, polymers, result, length, m, i, idx, N, cplus, w,
                   N_polymers, W_tilde, copied_polymers, origin>>
    /\ PlainUnchanged

NextFrw == FrwSeed \/ FrwZeros \/ FrwStep \/ FrwObserve \/ FrwStore

SpecFrw == InitFrw /\ [][NextFrw]_vars

(*********************** claims about add_monomer **************************)
\* the sites the chain has visited: the origin and every link's end
Visited(p) ==
    {p.origin} \cup {p.monomers[k].end_location : k \in 1..Len(p.monomers)}

NoDuplicates(s) == \A a, b \in 1..Len(s) : a # b => s[a] # s[b]

Neighbours(site) == {calculate_end(ang, site) : ang \in 0..3}

\* C1: claimed_sites never holds the same coordinate twice and holds every
\* site the chain has visited (the origin and every link's end), after any
\* sequence of successful add_monomer calls at either anchor.
C1_ClaimedSitesUniqueAndComplete ==
    \A r \in 1..Len(heap) :
        /\ NoDuplicates(heap[r].claimed_sites)
        /\ \A site \in Visited(heap[r]) : InSeq(site, heap[r].claimed_sites)

\* C2: conflict(candidate) is true exactly when (a) candidate.end is a site
\* the chain has visited, or (b) candidate.start is neither chain_start nor
\* chain_end, or (c) candidate.end is the current chain_start.
C2_ConflictIffCrossAttachClose ==
    pc = "api" =>
        LET p == heap[1]
            starts == Visited(p) \cup UNION {Neighbours(v) : v \in Visited(p)}
        IN  \A start \in starts, ang \in 0..3 :
                LET candidate == Monomer(ang, start)
                IN  conflict(p, candidate) <=>
                        \/ candidate.end_location \in Visited(p)
                        \/ candidate.location \notin {p.chain_start, p.chain_end}
                        \/ candidate.end_location = p.chain_start

ChainFields(p) ==
    <<p.chain_length, p.monomers, p.chain_start, p.chain_end, p.claimed_sites>>

\* C10: an add_monomer call that is rejected (ValueError for an anchor that
\* is neither 'start' nor 'end', Exception for a conflicting link) leaves
\* chain_length, monomers, chain_start, chain_end and claimed_sites as they
\* were before the call.
C10_RejectedAddLeavesChain ==
    [][(pc = "api" /\ result' \in {"ValueError", "Exception"})
          => ChainFields(heap'[1]) = ChainFields(heap[1])]_vars

\* a grown chain, extended at its start, has just had a conflicting link refused
C10_Witness ==
    /\ pc = "api"
    /\ result = "Exception"
    /\ heap[1].chain_length >= 3
    /\ heap[1].chain_start # heap[1].origin

(*********************** claims about grow_polymer *************************)
\* C3: a growth step that finds all four neighbours of the growth endpoint
\* conflicting appends no link (chain_length stays below the requested
\* target), records a branching factor of 0 and sets the pruned flag.
C3_DeadEndRecordsZeroAndPrunes ==
    pc = "grow_break" =>
        /\ heap[1].chain_length = i + 1
        /\ heap[1].chain_length < length
        /\ m[Len(m)] = FInt(0)
        /\ heap[1].pruned

\* the weights by their recurrence: w[1] = m[1], w[k] = w[k-1] * m[k]
WeightsFollowRecurrence(ws, ms) ==
    \A k \in 1..Len(ws) :
        ws[k] = IF k = 1 THEN ms[1] ELSE FMul(ws[k - 1], ms[k])

\* C4: for a chain grown by grow_polymer, after compute_node_weights the
\* first recorded branching factor is 4 and node_weights[i] is the product
\* of node_m_vals[0..i] for every i in 0..chain_length-1.
C4_WeightIsProductOfBranching ==
    pc = "weighted" =>
        LET p == heap[1]
        IN  /\ p.node_m_vals[1] = FInt(4)
            /\ Len(p.node_weights) = p.chain_length
            /\ Len(p.node_m_vals) >= p.chain_length
            /\ WeightsFollowRecurrence(p.node_weights, p.node_m_vals)

\* a chain of five links, grown where a neighbour was already taken at some step
C4_Witness ==
    /\ pc = "weighted"
    /\ heap[1].chain_length = 5
    /\ heap[1].node_weights[5] = FInt(4 * 3 * 3 * 2 * 3)

(**************************** claims about PERM ****************************)
\* the chains that grew in the round: after the growth loop they are the
\* ones not pruned
Grew(r) == ~heap[r].pruned

RECURSIVE SumOfGrown(_)
SumOfGrown(k) ==
    IF k = 0 THEN FInt(0)
    ELSE IF Grew(polymers[k])
    THEN FAdd(SumOfGrown(k - 1), Last(heap[polymers[k]].node_weights))
    ELSE SumOfGrown(k - 1)

NumberGrown == Cardinality({k \in 1..Len(polymers) : Grew(polymers[k])})

\* C5: in every PERM round the mean weight behind W- and W+ is the sum of
\* the last weights of exactly the chains that grew in the round, divided by
\* the number of chains that grew; chains that dead-ended in the round or
\* were pruned before add nothing to the sum.
C5_MeanIsOverGrownChains ==
    (pc = "correct" /\ idx = 1) =>
        /\ W_tilde.den = NumberGrown
        /\ W_tilde.num = SumOfGrown(Len(polymers))

\* C6: when the growth loop of a round ends with no chain grown, PERM runs
\* no further round: its next step is its normal completion, not an error
\* and not the thresholds of a zero count.
C6_HaltsWhenNoChainGrows ==
    [][(pc = "grow" /\ idx > Len(polymers) /\ N_polymers = 0)
          => pc' \in {"assemble", "done"}]_vars

\* the links of a chain
Links(p) == <<p.monomers, p.chain_length, p.chain_start, p.chain_end,
              p.claimed_sites>>

\* C7: with W- and W+ fixed before any correction, a chain that grew in the
\* round is handled by exactly one of: (i) last weight < W-: discarded
\* (pruned) or kept with its last weight doubled, links unchanged; (ii) last
\* weight > W+: last weight halved and exactly one clone with the same halved
\* weight added; (iii) otherwise nothing changes.  Chains that did not grow
\* are not touched.
C7_CorrectionCases ==
    [][(pc = "correct" /\ idx <= Len(polymers) /\ idx' = idx + 1) =>
        LET r == polymers[idx]
            p == heap[r]
            q == heap'[r]
            weight == Last(p.node_weights)
            low == less_than_W_minus(weight, W_tilde, cplus)
            high == greater_than_W_plus(weight, W_tilde, cplus)
            half == [n |-> 1, e |-> 1]
        IN  /\ W_tilde' = W_tilde /\ polymers' = polymers
            /\ \A o \in 1..Len(heap) : o # r => heap'[o] = heap[o]
            /\ ~(low /\ high)
            /\ p.pruned =>
                  heap' = heap /\ copied_polymers' = copied_polymers
            /\ (~p.pruned /\ low) =>
                  /\ Len(heap') = Len(heap)
                  /\ copied_polymers' = copied_polymers
                  /\ Links(q) = Links(p)
                  /\ \/ q.pruned
                     \/ /\ ~q.pruned
                        /\ Last(q.node_weights) = FMul(FInt(2), weight)
            /\ (~p.pruned /\ high) =>
                  /\ Len(heap') = Len(heap) + 1
                  /\ copied_polymers' = Append(copied_polymers, Len(heap) + 1)
                  /\ Links(q) = Links(p) /\ ~q.pruned
                  /\ Last(q.node_weights) = FMul(half, weight)
                  /\ heap'[Len(heap) + 1] = q
            /\ (~p.pruned /\ ~low /\ ~high) =>
                  heap' = heap /\ copied_polymers' = copied_polymers
    ]_vars

\* a round whose correction loop has cloned one chain and left another alone
C7_Witness ==
    /\ pc = "correct"
    /\ idx = 3
    /\ Len(polymers) = 2
    /\ Len(copied_polymers) = 1
    /\ \E k \in 1..2 : /\ ~heap[polymers[k]].pruned
                       /\ polymers[k] # copied_polymers[1]
                       /\ heap[polymers[k]] # heap[copied_polymers[1]]

\* C8: a clone and its original share no mutable state: a growth step, dead
\* end, prune, doubling or halving applied to one chain of the ensemble leaves
\* every other chain (links, branching factors, weights, pruned flag) as it
\* was.
C8_ChainsAreIndependent ==
    [][(pc \in {"grow", "correct"} /\ idx <= Len(polymers) /\ idx' = idx + 1) =>
        /\ \A k \in 1..Len(polymers) :
              k # idx => heap'[polymers[k]] = heap[polymers[k]]
        /\ pc = "correct" =>
              \A k \in 1..Len(copied_polymers) :
                  heap'[copied_polymers[k]] = heap[copied_polymers[k]]
    ]_vars

\* a clone made in the first round has since grown another way than its
\* original
C8_Witness ==
    /\ Len(polymers) > N
    /\ N = 1
    /\ heap[polymers[2]].monomers[2] = heap[polymers[1]].monomers[2]
    /\ heap[polymers[1]].chain_length = 3
    /\ heap[polymers[2]].chain_length = 3
    /\ heap[polymers[2]].chain_end # heap[polymers[1]].chain_end

\* C9: in every round the ensemble holds at least as many chains after the
\* round as before it (discarded chains stay) and at most twice as many.
C9_EnsembleGrowsAtMostTwofold ==
    [][(pc \in {"grow", "correct"}) =>
        /\ Len(polymers') >= Len(polymers)
        /\ Len(polymers') <= 2 * Len(polymers)
        /\ SubSeq(polymers', 1, Len(polymers)) = polymers
        /\ pc' # "round_end" => polymers' = polymers
    ]_vars

\* a round has ended that doubled the ensemble, and one that kept a discarded
\* chain
C9_Witness ==
    /\ pc = "round_end"
    /\ Len(polymers) = 2 * N
    /\ N = 2
    /\ \E k \in 1..Len(polymers) : ~heap[polymers[k]].pruned

(************** claims about find_N_polymer / analyse_polymers *************)
\* the matrix mat has rows rows of cols columns
HasShape(mat, rows, cols) ==
    /\ Len(mat) = rows
    /\ \A k \in 1..Len(mat) : Len(mat[k]) = cols

\* C11: find_N_polymer(count, length) followed by analyse_polymers(length) on
\* a fresh ensemble stores endToEnd, gyration and weight matrices with exactly
\* count rows and length columns, whatever dead ends occurred during growth.
C11_PlainMatricesAreCountByLength ==
    (pc = "done" /\ n_found = N) =>
        /\ HasShape(end_to_end, N, length)
        /\ HasShape(gyration, N, length)
        /\ HasShape(weights, N, length)

(******************** claims about the chains' records *********************)
\* C12: after any grow_polymer call and after every PERM round, every chain
\* (dead-ended, discarded and pruned ones included) has as many entries in
\* node_m_vals as it has stored monomers, and that number is chain_length.
C12_BranchingFactorsMatchLinks ==
    (pc \in {"grown", "round_end"}) =>
        \A r \in 1..Len(heap) :
            /\ Len(heap[r].node_m_vals) = Len(heap[r].monomers)
            /\ Len(heap[r].monomers) = heap[r].chain_length

\* C13: during PERM, once a chain's pruned flag is true (by dead end or by
\* discard) it stays true, the chain keeps its place in the ensemble, and its
\* links, chain_length, chain_start, chain_end and claimed_sites never change
\* again.
C13_PrunedIsTerminal ==
    [][\A k \in 1..Len(polymers) :
          heap[polymers[k]].pruned =>
              /\ Len(polymers') >= k
              /\ polymers'[k] = polymers[k]
              /\ heap'[polymers[k]].pruned
              /\ Links(heap'[polymers[k]]) = Links(heap[polymers[k]])
    ]_vars

\* a round has ended in which a chain discarded in an earlier round was passed
\* over while another chain grew on
C13_Witness ==
    /\ pc = "round_end"
    /\ \E k, j \in 1..Len(polymers) :
          /\ heap[polymers[k]].pruned
          /\ heap[polymers[k]].chain_length < i
          /\ Len(heap[polymers[k]].node_m_vals) > heap[polymers[k]].chain_length
          /\ ~heap[polymers[j]].pruned
          /\ heap[polymers[j]].chain_length = i + 1

\* C16: PERM's prune and enrich corrections never alter the recorded
\* branching factors: a pass of the correction loop leaves every chain's
\* node_m_vals as it was, and at every point of a PERM run every entry of
\* every chain's node_m_vals is an integer in 0..4 (4 for the seed).
C16_CorrectionsKeepBranchingFactors ==
    [][/\ (pc = "correct" /\ idx <= Len(polymers)) =>
             \A r \in 1..Len(heap) : heap'[r].node_m_vals = heap[r].node_m_vals
       /\ \A r \in 1..Len(heap') :
             /\ heap'[r].node_m_vals[1] = FInt(4)
             /\ \A k \in 1..Len(heap'[r].node_m_vals) :
                   heap'[r].node_m_vals[k] \in {FInt(v) : v \in 0..4}
    ]_vars

(********************** claims about PERM's matrices ***********************)
\* the sequence seq of a chain of len links, zero-padded to cols columns
Padded(seq, len, cols, zero) ==
    [j \in 1..cols |-> IF j <= len THEN seq[j] ELSE zero]

\* C17: for every N >= 0 and L >= 1, PERM(N, cplus, L) on a fresh ensemble
\* finishes (no exception) by storing weight, endToEnd and gyration matrices
\* with one row per chain of the ensemble and L columns, row k holding chain
\* k's sequences in its first chain_length columns and zeros past them.
C17_PermStoresPaddedMatrices ==
    /\ pc # "error"
    /\ pc = "done" =>
          /\ HasShape(weights, Len(polymers), length)
          /\ HasShape(end_to_end, Len(polymers), length)
          /\ HasShape(gyration, Len(polymers), length)
          /\ \A k \in 1..Len(polymers) :
                LET p == heap[polymers[k]]
                    o == observables(p)
                IN  /\ Len(p.node_weights) = p.chain_length
                    /\ weights[k] = Padded(p.node_weights, p.chain_length,
                                           length, FInt(0))
                    /\ end_to_end[k] = Padded(o.end_to_end, p.chain_length,
                                              length, 0)
                    /\ gyration[k] = Padded(o.gyration, p.chain_length,
                                            length, GZero)

(************************ claims about observables *************************)
Abs(v) == IF v < 0 THEN -v ELSE v

\* the nodes xs, ys start at org, are len + 1 and go by unit steps along one axis
UnitStepsFrom(xs, ys, org, len) ==
    /\ Len(xs) = len + 1
    /\ Len(ys) = len + 1
    /\ <<xs[1], ys[1]>> = org
    /\ \A k \in 1..len :
          Abs(xs[k + 1] - xs[k]) + Abs(ys[k + 1] - ys[k]) = 1

\* C14: for every chain produced by grow_polymer (or PERM rounds), the node
\* coordinates compute_node_weights builds start at the origin, have
\* chain_length + 1 entries and go by steps of one unit along one axis; the
\* nodes a chain has cached are those; and endToEnd[0] is 1.
C14_NodesAreUnitSteps ==
    \A r \in 1..Len(heap) :
        LET p == heap[r]
            q == compute_node_weights(p)
            o == observables(p)
        IN  /\ UnitStepsFrom(q.nodes_locsx, q.nodes_locsy, p.origin,
                             p.chain_length)
            /\ p.has_nodes => /\ p.nodes_locsx = q.nodes_locsx
                              /\ p.nodes_locsy = q.nodes_locsy
            /\ o.raised = "none"
            /\ o.end_to_end[1] = 1

\* a chain of eight links with a turn, away from (0,0), has its nodes computed
C14_Witness ==
    /\ pc = "weighted"
    /\ heap[1].has_nodes
    /\ heap[1].chain_length = 8
    /\ heap[1].origin = <<1, -2>>
    /\ \E k \in 1..7 : heap[1].monomers[k].angle # heap[1].monomers[k + 1].angle
    /\ Len(heap[1].nodes_locsx) = 9

\* the nodes the loop pass i = k - 1 of observables computes gyration over:
\* those of the slices x_[0:i+1], y_[0:i+1]
SliceNodes(p, k) ==
    {<<p.nodes_locsx[j], p.nodes_locsy[j]>> : j \in 1..k}

\* C15: for every self-avoiding chain produced by grow_polymer and every i in
\* 0..chain_length-1, the gyration[i] observables returns is >= 0, and it is
\* 0 exactly when the nodes it is computed over are a single node.
C15_GyrationZeroOnlyOnOneNode ==
    pc = "observed" =>
        /\ result = "returned"
        /\ Len(gyration) = heap[1].chain_length
        /\ \A k \in 1..Len(gyration) :
              /\ gyration[k].den > 0
              /\ gyration[k].num >= 0
              /\ gyration[k].num = 0 <=> Cardinality(SliceNodes(heap[1], k)) = 1

\* observables has returned for a chain of eight links away from (0,0)
C15_Witness ==
    /\ pc = "observed"
    /\ heap[1].chain_length = 8
    /\ heap[1].origin = <<1, -2>>
    /\ gyration[1].num = 0
    /\ gyration[8].num > 0

\* the mean over the first cnt nodes of the squared distance to their centre
\* of mass, as a fraction
MeanSquareSpread(xs, ys, cnt) ==
    [num |-> sum_sq_dev(xs, cnt, cnt, np_sum(xs, cnt))
                + sum_sq_dev(ys, cnt, cnt, np_sum(ys, cnt)),
     den |-> cnt * cnt * cnt]

\* C19: for every i in 0..chain_length-1, gyration[i] is computed over the
\* nodes endToEnd[i] spans, nodes 0 through i+1 (i+2 nodes): it is the mean
\* over those nodes of the squared distance to their centre of mass.
C19_GyrationSpansLinkEnd ==
    pc = "observed" =>
        \A k \in 1..Len(gyration) :
            LET over == MeanSquareSpread(heap[1].nodes_locsx,
                                         heap[1].nodes_locsy, k + 1)
            IN  gyration[k].num * over.den = over.num * gyration[k].den

\* C18: after any interleaving of observables() calls and successful
\* add_monomer calls on a chain, observables() returns normally, with
\* endToEnd and gyration of length chain_length computed from the chain's
\* current node coordinates, never from a cache an earlier call filled.
C18_ObservablesFollowTheChain ==
    pc = "api" =>
        /\ result # "IndexError"
        /\ result = "returned" =>
              LET fresh == observables(compute_node_weights(heap[1]))
              IN  /\ Len(end_to_end) = heap[1].chain_length
                  /\ Len(gyration) = heap[1].chain_length
                  /\ end_to_end = fresh.end_to_end
                  /\ gyration = fresh.gyration

(********************* claims about data_funcs.Polymer *********************)
\* the nodes of the only chain: its origin and the ends of the links stored
\* in the monomers dict, in the order of their keys
DataNodes(h) ==
    <<h[2].origin>> \o
        [k \in 1..h[2].chain_length |-> h[1].monomers[k - 1].end_location]

\* C20: in data_funcs.Polymer a chain built by any sequence of add_monomer
\* calls never revisits a lattice site: a link whose end is a site the chain
\* has visited is refused, so the chain's nodes are pairwise different.
C20_DataChainNeverRevisits ==
    (pc = "data" /\ Len(polymers) = 1) => NoDuplicates(DataNodes(heap))

\* C21: in data_funcs.Polymer the chains are independent: constructing a
\* second Polymer, or calling add_monomer on one Polymer, leaves the monomers
\* mapping and the claimed_sites of every other Polymer instance (one the
\* step did not act on, so that its own fields are the same) unchanged.
C21_DataChainsAreIndependent ==
    [][pc = "data" =>
        \A r \in 2..Len(heap) :
            heap'[r] = heap[r] =>
                /\ data_monomers(heap', r) = data_monomers(heap, r)
                /\ data_claimed_sites(heap', r) = data_claimed_sites(heap, r)]_vars

\* C22: PERM grows the ensemble in lock step: after r completed rounds
\* (r = i, 0 <= r <= L-1) every chain that is not pruned, seed or clone, has
\* chain_length exactly r+1 and every pruned chain has chain_length at most
\* r+1; so after the run every non-pruned chain has exactly L links.
C22_LockStep ==
    (\/ pc = "seed" /\ Len(polymers) = N
     \/ pc \in {"round_end", "assemble", "done"}) =>
        /\ i <= length - 1
        /\ \A k \in 1..Len(polymers) :
              LET p == heap[polymers[k]]
              IN  /\ ~p.pruned => p.chain_length = i + 1
                  /\ p.pruned => p.chain_length <= i + 1
                  /\ (pc \in {"assemble", "done"} /\ ~p.pruned) =>
                        p.chain_length = length

\* a run of three or more links has ended with a chain of full length next
\* to a chain that was discarded on the way and is shorter
C22_Witness ==
    /\ pc = "done"
    /\ length >= 3
    /\ \E k \in 1..Len(polymers) :
          /\ ~heap[polymers[k]].pruned
          /\ heap[polymers[k]].chain_length = length
    /\ \E k \in 1..Len(polymers) :
          /\ heap[polymers[k]].pruned
          /\ heap[polymers[k]].chain_length < length

\* C23: a PERM weight correction carries forward: for every chain that grows
\* in a round, its last weight after that growth step is its last weight at
\* the end of the round before (doubled or halved there, if it was) times the
\* branching factor of the step, with the earlier weights kept; and a
\* correction changes none of a chain's weights but the last.
C23_CorrectionCarriesForward ==
    [][(pc \in {"grow", "correct"} /\ idx <= Len(polymers) /\ idx' = idx + 1) =>
        LET p == heap[polymers[idx]]
            q == heap'[polymers[idx]]
            before == Len(p.node_weights)
        IN  /\ (pc = "grow" /\ q.chain_length = p.chain_length + 1
                    /\ before > 0) =>
                  /\ Len(q.node_weights) = before + 1
                  /\ Last(q.node_weights)
                        = FMul(Last(p.node_weights), Last(q.node_m_vals))
                  /\ SubSeq(q.node_weights, 1, before) = p.node_weights
            /\ pc = "correct" =>
                  /\ Len(q.node_weights) = before
                  /\ \A j \in 1..(before - 1) :
                        q.node_weights[j] = p.node_weights[j]
    ]_vars

\* a chain whose last weight was halved at the end of a round has grown in
\* the next round
C23_Witness ==
    /\ pc = "grow"
    /\ i >= 1
    /\ idx > 1
    /\ LET p == heap[polymers[idx - 1]]
       IN  /\ ~p.pruned
           /\ p.chain_length = i + 2
           /\ p.node_m_vals[p.chain_length - 1].e = 1
           /\ Last(p.node_weights)
                 = FMul(p.node_weights[p.chain_length - 1], Last(p.node_m_vals))

\* C24: every free random walk generated by FRW(N, length) is a connected
\* lattice path of exactly length links: each appended link starts at the end
\* of the link appended before it and chain_end is the end of the last link
\* (also when the walk returns to its origin), so that consecutive nodes
\* differ by one unit step.
C24_FrwIsConnectedPath ==
    pc \in {"frw_walk", "done"} =>
        \A k \in 1..Len(polymers) :
            LET p == heap[polymers[k]]
            IN  /\ \A j \in 1..(Len(p.monomers) - 1) :
                      p.monomers[j + 1].location = p.monomers[j].end_location
                /\ p.chain_end = p.monomers[Len(p.monomers)].end_location
                /\ (k < idx \/ pc = "done") =>
                      /\ p.chain_length = length
                      /\ UnitStepsFrom(p.nodes_locsx, p.nodes_locsy, p.origin,
                                       length)

\* the exact comparisons above agree with float64: a weight never ties with a
\* threshold whose float64 value is rounded
ThresholdsExact ==
    (pc = "correct" /\ W_tilde.kind = "finite") =>
        \A k \in 1..Len(polymers) :
            LET p == heap[polymers[k]]
                weight == Last(p.node_weights)
                ratio_exact == (W_tilde.num.n * Pow2(8)) % W_tilde.den = 0
                tie_plus == FMul(FInt(cplus.num), W_tilde.num)
                              = FMul(weight, FInt(cplus.den * W_tilde.den))
                tie_minus == FMul(FInt(cplus.num), W_tilde.num)
                              = FMul(weight, FInt(10 * cplus.den * W_tilde.den))
            IN  /\ tie_plus => ratio_exact
                /\ tie_minus => (ratio_exact /\ cplus.num % 5 = 0)

====
